---- MODULE Spec2Model ----
(***************************************************************************)
(* A model of curated-transformers: the causal LM's cache-aware forward   *)
(* call (models/llama/causal_lm.py), the Auto* hub dispatch               *)
(* (util/auto_model.py), the RoBERTa tokenizer's construction and its     *)
(* pre-decoder / post-encoder stages (tokenization/roberta_tokenizer.py)  *)
(* and the WordPiece pipeline pinned down by the toy-tokenizer test       *)
(* (tests/tokenization/test_bert_tokenizer.py).                           *)
(*                                                                         *)
(* Tensors are modelled by their shape and by symbolic contents: a hidden  *)
(* state is the term it was computed from, so two hidden states are equal  *)
(* exactly when the same computation produced them.                        *)
(***************************************************************************)
EXTENDS Integers, Sequences, FiniteSets, TLC

VARIABLES
    \* ---- causal LM decoding loop (the caller of LLaMACausalLM.forward)
    lm_cache,     \* the cache the caller holds: <<>> (None) or <<list of layer caches>>
    lm_fed,       \* the tokens the caller has fed in the current chain of calls
    lm_logits,    \* the logits the caller has collected, one per fed token
    lm_calls,     \* number of forward calls of the current chain
    lm_in,        \* the arguments of the last forward call
    lm_out,       \* what the last forward call returned or raised
    \* ---- Auto* dispatch
    auto_req,     \* the last from_hf_hub request
    auto_calls,   \* the module-class from_hf_hub invocations made by that request
    auto_result,  \* what the request returned or raised
    \* ---- tokenizer
    tok_args,     \* the arguments the tokenizer was constructed with
    tok,          \* the constructed tokenizer, or its construction error
    tok_texts,    \* the batch of texts of the last encode call
    tok_enc,      \* the PiecesWithIds that encode returned
    tok_dec,      \* the strings decode returned for tok_enc.ids
    \* ---- pure functions under test
    fn_in,        \* the input the function was applied to
    fn_out        \* what it returned

vars == <<lm_cache, lm_fed, lm_logits, lm_calls, lm_in, lm_out,
          auto_req, auto_calls, auto_result,
          tok_args, tok, tok_texts, tok_enc, tok_dec, fn_in, fn_out>>

lm_vars   == <<lm_cache, lm_fed, lm_logits, lm_calls, lm_in, lm_out>>
auto_vars == <<auto_req, auto_calls, auto_result>>
tok_vars  == <<tok_args, tok, tok_texts, tok_enc, tok_dec>>
fn_vars   == <<fn_in, fn_out>>

\* Python's None for an Optional argument: the empty option; Some(v) holds v.
None == <<>>
Some(v) == <<v>>
IsNone(o) == Len(o) = 0
Get(o) == o[1]

\* States of the parts of the program a specification does not exercise.
LmIdle ==
    /\ lm_cache = None /\ lm_fed = <<>> /\ lm_logits = <<>> /\ lm_calls = 0
    /\ lm_in = [called |-> FALSE] /\ lm_out = [status |-> "none"]
AutoIdle ==
    /\ auto_req = [called |-> FALSE] /\ auto_calls = <<>>
    /\ auto_result = [status |-> "none"]
TokIdle ==
    /\ tok_args = [called |-> FALSE]
    /\ tok = [status |-> "none"] /\ tok_texts = <<>>
    /\ tok_enc = [status |-> "none"] /\ tok_dec = [status |-> "none"]
FnIdle ==
    /\ fn_in = [fn |-> "none"] /\ fn_out = [status |-> "none"]

(***************************************************************************)
(* Causal LM: LLaMACausalLM.forward over the LLaMA decoder.                *)
(***************************************************************************)

\* Bounds of the decoding model.
NumLayers == 2      \* config.layer.num_hidden_layers of the model under test
MaxSeen == 3        \* longest cache the caller grows
MaxNew == 2         \* most new tokens passed in one forward call

TokenIds == {1, 2}
BatchSizes == {1, 2}

\* All non-empty token sequences of at most n tokens.
TokenSeqs(n) == UNION {[1..k -> TokenIds] : k \in 1..n}

\* The token embedding of the decoder: one embedding per input position.
Embed(ids) == [i \in 1..Len(ids) |-> [tok |-> ids[i]]]

\* Default positions: the new tokens follow the positions already in the cache.
DefaultPositions(seen, n) == [i \in 1..n |-> seen + i]

\* Sequence length held by one layer's KeyValueCache ([batch, heads, seen, dim]).
SeenLen(layer_cache) == Len(layer_cache.kv)

\* Seen length of an optional cache at layer l: 0 when no cache is supplied.
SeenLenAt(cache, l) ==
    IF IsNone(cache) \/ l > Len(Get(cache)) THEN 0 ELSE SeenLen(Get(cache)[l])

\* One decoder layer: causal self-attention of every new position over the
\* cached keys/values followed by the new ones up to that position. The stored
\* cache is the concatenation along the sequence dimension.
DecoderLayer(l, batch, xs, positions, layer_cache, store_cache) ==
    LET new  == [i \in 1..Len(xs) |-> [x |-> xs[i], pos |-> positions[i]]]
        old  == IF IsNone(layer_cache) THEN <<>> ELSE Get(layer_cache).kv
        keys == old \o new
    IN  [out   |-> [i \in 1..Len(xs) |->
                      [layer |-> l, ctx |-> SubSeq(keys, 1, Len(old) + i)]],
         cache |-> IF store_cache THEN Some([batch |-> batch, kv |-> keys])
                   ELSE None]

\* The layer stack from layer l on; returns the hidden states of every layer
\* and the caches the layers stored.
RECURSIVE RunLayers(_, _, _, _, _, _)
RunLayers(l, batch, xs, positions, cache, store_cache) ==
    IF l > NumLayers THEN [states |-> <<>>, caches |-> <<>>]
    ELSE LET lc   == IF IsNone(cache) THEN None ELSE Some(Get(cache)[l])
             r    == DecoderLayer(l, batch, xs, positions, lc, store_cache)
             rest == RunLayers(l + 1, batch, r.out, positions, cache, store_cache)
         IN  [states |-> <<r.out>> \o rest.states,
              caches |-> (IF store_cache THEN <<Get(r.cache)>> ELSE <<>>)
                         \o rest.caches]

\* Does the supplied cache disagree with the model (layer count) or with the
\* input (batch dimension)?
CacheMismatch(input_ids, cache) ==
    /\ ~IsNone(cache)
    /\ \/ Len(Get(cache)) # NumLayers
       \/ \E l \in 1..Len(Get(cache)) : Get(cache)[l].batch # input_ids.batch

\* The decoder's forward call. It validates the cache before any layer runs.
LLaMADecoder_forward(input_ids, attention_mask, cache, store_cache, positions) ==
    IF CacheMismatch(input_ids, cache)
    THEN [status |-> "error", error |-> "ConfigurationMismatch", layers_run |-> 0]
    ELSE LET seen == SeenLenAt(cache, 1)
             pos  == IF IsNone(positions)
                     THEN DefaultPositions(seen, Len(input_ids.ids))
                     ELSE Get(positions)
             emb  == Embed(input_ids.ids)
             r    == RunLayers(1, input_ids.batch, emb, pos, cache, store_cache)
         IN  [status |-> "ok",
              layers_run |-> Len(r.states),
              embedding_layer |-> emb,
              all_hidden_layer_states |-> r.states,
              last_hidden_layer_states |->
                  IF Len(r.states) = 0 THEN emb ELSE r.states[Len(r.states)],
              cache |-> IF store_cache THEN Some(r.caches) ELSE None]

\* torch.nn.Linear applied position-wise: one logits row per hidden state.
output_embeddings(hidden) == [i \in 1..Len(hidden) |-> [logits_of |-> hidden[i]]]

\* Mutants of the decoder call: an argument that is not passed on.
forward_decoder_call_drops_store_cache(input_ids, attention_mask, cache, positions, store_cache) ==
    LLaMADecoder_forward(input_ids, attention_mask, cache, FALSE, positions)
forward_decoder_call_drops_cache(input_ids, attention_mask, cache, positions, store_cache) ==
    LLaMADecoder_forward(input_ids, attention_mask, None, store_cache, positions)

\* causal_lm.py 46-52: self.decoder(input_ids, attention_mask, cache=cache, ...)
forward_decoder_call(input_ids, attention_mask, cache, positions, store_cache) ==
    LLaMADecoder_forward(input_ids, attention_mask, cache, store_cache, positions)

\* Mutant: logits of the last position only.
forward_logits_last_only(decoder_output) ==
    LET h == decoder_output.last_hidden_layer_states
    IN  output_embeddings(SubSeq(h, Len(h), Len(h)))

\* causal_lm.py 53: logits = self.output_embeddings(last_hidden_layer_states)
forward_logits(decoder_output) ==
    output_embeddings(decoder_output.last_hidden_layer_states)

\* causal_lm.py 55-60: the CausalLMOutputWithCache that forward returns.
forward_output(decoder_output, logits) ==
    [status |-> "ok",
     layers_run |-> decoder_output.layers_run,
     cache |-> decoder_output.cache,
     embedding_output |-> decoder_output.embedding_layer,
     layer_hidden_states |-> decoder_output.all_hidden_layer_states,
     logits |-> logits]

\* Mutant: a failed decoder call is answered with an empty output instead of
\* the error.
forward_swallows_error(input_ids, attention_mask, cache, positions, store_cache) ==
    LET d == forward_decoder_call(input_ids, attention_mask, cache, positions, store_cache)
    IN  IF d.status = "error"
        THEN [status |-> "ok", layers_run |-> 0, cache |-> None,
              embedding_output |-> <<>>, layer_hidden_states |-> <<>>,
              logits |-> <<>>]
        ELSE forward_output(d, forward_logits(d))

\* causal_lm.py 38-60: LLaMACausalLM.forward. An exception raised by the
\* decoder propagates: nothing after line 52 runs.
forward(input_ids, attention_mask, cache, positions, store_cache) ==
    LET d == forward_decoder_call(input_ids, attention_mask, cache, positions, store_cache)
    IN  IF d.status = "error" THEN d
        ELSE forward_output(d, forward_logits(d))

\* The caller makes one forward call with new tokens, the cache it holds and
\* no explicit mask or positions. On success it keeps the returned cache
\* (none if it did not ask for one) and collects the logits; on an error its
\* state is as before the call.
Forward(batch, ids, store_cache) ==
    LET input == [batch |-> batch, ids |-> ids]
        out   == forward(input, None, lm_cache, None, store_cache)
    IN  /\ SeenLenAt(lm_cache, 1) + Len(ids) <= MaxSeen
        /\ lm_in' = [called |-> TRUE, input_ids |-> input, cache |-> lm_cache,
                     store_cache |-> store_cache, fed_before |-> lm_fed,
                     logits_before |-> lm_logits]
        /\ lm_out' = out
        /\ IF out.status = "ok"
           THEN /\ lm_cache' = out.cache
                /\ lm_fed' = IF store_cache THEN lm_fed \o ids ELSE <<>>
                /\ lm_logits' = IF store_cache THEN lm_logits \o out.logits ELSE <<>>
                /\ lm_calls' = IF store_cache THEN lm_calls + 1 ELSE 0
           ELSE UNCHANGED <<lm_cache, lm_fed, lm_logits, lm_calls>>
        /\ UNCHANGED <<auto_vars, tok_vars, fn_vars>>

ForwardStep ==
    \E b \in BatchSizes, ids \in TokenSeqs(MaxNew), sc \in BOOLEAN :
        Forward(b, ids, sc)

\* The caller comes to hold a cache that was built for another layer count:
\* one layer too few or one layer too many.
ForeignCache ==
    /\ ~IsNone(lm_cache)
    /\ Len(Get(lm_cache)) = NumLayers
    /\ \E c \in {SubSeq(Get(lm_cache), 1, NumLayers - 1),
                 Get(lm_cache) \o <<Get(lm_cache)[NumLayers]>>} :
           lm_cache' = Some(c)
    /\ UNCHANGED <<lm_fed, lm_logits, lm_calls, lm_in, lm_out>>
    /\ UNCHANGED <<auto_vars, tok_vars, fn_vars>>

\* The decoding loop ends: the cache is discarded.
EndLoop ==
    /\ ~IsNone(lm_cache)
    /\ lm_cache' = None /\ lm_fed' = <<>> /\ lm_logits' = <<>> /\ lm_calls' = 0
    /\ UNCHANGED <<lm_in, lm_out>>
    /\ UNCHANGED <<auto_vars, tok_vars, fn_vars>>

InitLM == LmIdle /\ AutoIdle /\ TokIdle /\ FnIdle
NextLM == ForwardStep \/ ForeignCache \/ EndLoop
SpecLM == InitLM /\ [][NextLM]_vars

(***************************************************************************)
(* Claims about the causal LM.                                             *)
(***************************************************************************)

\* The last call succeeded and was given a cache.
LmOkWithCache == lm_in.called /\ lm_out.status = "ok" /\ ~IsNone(lm_in.cache)

\* C1: when forward is called with store_cache=True, the returned cache has,
\* at every layer, the seen-length of the supplied cache (0 when none) plus
\* the number of input tokens of the call, so it never shrinks; and the cache
\* holds each token fed in the chain exactly once, at consecutive positions.
C1_CacheGrowsByInput ==
    (lm_in.called /\ lm_out.status = "ok" /\ lm_in.store_cache) =>
        /\ ~IsNone(lm_out.cache)
        /\ Len(Get(lm_out.cache)) = NumLayers
        /\ \A l \in 1..NumLayers :
            /\ SeenLen(Get(lm_out.cache)[l])
                   = SeenLenAt(lm_in.cache, l) + Len(lm_in.input_ids.ids)
            /\ SeenLen(Get(lm_out.cache)[l]) >= SeenLenAt(lm_in.cache, l)
        /\ LET fed == lm_in.fed_before \o lm_in.input_ids.ids
               kv  == Get(lm_out.cache)[1].kv
           IN  /\ Len(kv) = Len(fed)
               /\ \A i \in 1..Len(fed) :
                      kv[i] = [x |-> [tok |-> fed[i]], pos |-> i]

\* C1 witness: a call that extends a one-token cache by two new tokens.
C1_Witness ==
    /\ LmOkWithCache /\ lm_in.store_cache
    /\ SeenLenAt(lm_in.cache, NumLayers) = 1
    /\ Len(lm_in.input_ids.ids) = 2
    /\ SeenLenAt(lm_out.cache, NumLayers) = 3

\* C2 as claimed: when a cache is supplied, the returned logits cover only
\* the last position of the input, whatever the number of new tokens.
C2_LogitsLastOnly ==
    LmOkWithCache => Len(lm_out.logits) = 1

\* C2 as amended: when a cache is supplied, the returned logits cover every
\* input position of the call, one row per new token and none for the cached
\* tokens; row i is computed from the last layer's state of new token i, which
\* attends over the cache and the new tokens up to i. The logits cover only
\* the last position exactly when one new token is passed.
C2_LogitsPerNewToken ==
    LmOkWithCache =>
        LET n    == Len(lm_in.input_ids.ids)
            seen == SeenLenAt(lm_in.cache, NumLayers)
        IN  /\ Len(lm_out.logits) = n
            /\ \A i \in 1..n :
                /\ lm_out.logits[i].logits_of.layer = NumLayers
                /\ Len(lm_out.logits[i].logits_of.ctx) = seen + i
            /\ (Len(lm_out.logits) = 1) <=> (n = 1)

\* C2 witness: two new tokens passed along with a cache.
C2_Witness ==
    LmOkWithCache /\ Len(lm_in.input_ids.ids) = 2 /\ Len(lm_out.logits) = 2

\* C3: a forward call whose cache disagrees with the model's layer count or
\* with the batch dimension fails with a configuration-mismatch error before
\* any layer runs; no logits are produced and the caller's cache (and what it
\* has collected) is as before the call.
C3_MismatchFailsFirst ==
    [][(/\ lm_in' # lm_in
        /\ lm_in'.called
        /\ CacheMismatch(lm_in'.input_ids, lm_in'.cache))
       => /\ lm_out'.status = "error"
          /\ lm_out'.error = "ConfigurationMismatch"
          /\ lm_out'.layers_run = 0
          /\ "logits" \notin DOMAIN lm_out'
          /\ "cache" \notin DOMAIN lm_out'
          /\ lm_cache' = lm_cache
          /\ lm_cache' = lm_in'.cache
          /\ lm_logits' = lm_logits]_vars

\* C3 witnesses: a failed call with a wrong layer count, and with a wrong batch.
C3_Witness ==
    /\ lm_in.called /\ lm_out.status = "error"
    /\ ~IsNone(lm_in.cache)
    /\ Len(Get(lm_in.cache)) # NumLayers
    /\ lm_cache = lm_in.cache

C3_WitnessBatch ==
    /\ lm_in.called /\ lm_out.status = "error"
    /\ ~IsNone(lm_in.cache)
    /\ Len(Get(lm_in.cache)) = NumLayers
    /\ Get(lm_in.cache)[1].batch # lm_in.input_ids.batch

\* The logits of one forward call over the whole sequence, without a cache.
FullLogits(batch, ids) ==
    forward([batch |-> batch, ids |-> ids], None, None, None, FALSE).logits

\* C4: after N forward calls of one token each, each given the cache stored
\* by the previous one, the logits of step k equal position k of one forward
\* call over the whole N-token sequence without a cache.
C4_IncrementalEqualsFull ==
    (lm_calls >= 1 /\ lm_calls = Len(lm_fed)) =>
        /\ Len(lm_logits) = Len(lm_fed)
        /\ \A b \in BatchSizes : \A k \in 1..Len(lm_fed) :
               lm_logits[k] = FullLogits(b, lm_fed)[k]

\* C4 witness: three one-token steps.
C4_Witness ==
    /\ lm_calls = 3 /\ Len(lm_fed) = 3 /\ Len(lm_logits) = 3
    /\ LmOkWithCache /\ Len(lm_in.input_ids.ids) = 1

(***************************************************************************)
(* Auto* classes: dispatch from a hub model type to a module class.        *)
(***************************************************************************)

\* The class-level maps, in declaration order (a dict keeps insertion order).
AutoEncoder_HF_MODEL_TYPE_TO_CURATED ==
    << <<"bert", "BertEncoder">>, <<"albert", "AlbertEncoder">>,
       <<"camembert", "CamembertEncoder">>, <<"roberta", "RobertaEncoder">>,
       <<"xlm-roberta", "XlmRobertaEncoder">> >>

AutoDecoder_HF_MODEL_TYPE_TO_CURATED ==
    << <<"gpt_neox", "GPTNeoXDecoder">>, <<"llama", "LLaMADecoder">>,
       <<"RefinedWeb", "RefinedWebModelDecoder">>,
       <<"RefinedWebModel", "RefinedWebModelDecoder">> >>

AutoCausalLM_HF_MODEL_TYPE_TO_CURATED ==
    << <<"gpt_neox", "GPTNeoXCausalLM">>, <<"llama", "LLaMACausalLM">>,
       <<"RefinedWeb", "RefinedWebModelCausalLM">>,
       <<"RefinedWebModel", "RefinedWebModelCausalLM">> >>

\* The module base class of every module class the maps name.
ModuleKind(module_cls) ==
    IF module_cls \in {"BertEncoder", "AlbertEncoder", "CamembertEncoder",
                       "RobertaEncoder", "XlmRobertaEncoder"}
    THEN "EncoderModule"
    ELSE IF module_cls \in {"GPTNeoXDecoder", "LLaMADecoder", "RefinedWebModelDecoder"}
    THEN "DecoderModule"
    ELSE "CausalLMModule"

\* The hub: the model type in the configuration of each model repository.
HubModelTypes ==
    [n \in {"hub/bert", "hub/albert", "hub/camembert", "hub/roberta",
            "hub/xlm-roberta", "hub/gpt_neox", "hub/llama", "hub/RefinedWeb",
            "hub/RefinedWebModel", "hub/t5"} |->
        CASE n = "hub/bert" -> "bert"
          [] n = "hub/albert" -> "albert"
          [] n = "hub/camembert" -> "camembert"
          [] n = "hub/roberta" -> "roberta"
          [] n = "hub/xlm-roberta" -> "xlm-roberta"
          [] n = "hub/gpt_neox" -> "gpt_neox"
          [] n = "hub/llama" -> "llama"
          [] n = "hub/RefinedWeb" -> "RefinedWeb"
          [] n = "hub/RefinedWebModel" -> "RefinedWebModel"
          [] n = "hub/t5" -> "t5"]
HubNames == DOMAIN HubModelTypes
Revisions == {"main", "v1"}
Devices == {"None", "cuda"}
QuantizationConfigs == {"None", "8bit"}

\* util.hf.get_hf_config_model_type: the model type the hub's config names.
get_hf_config_model_type(name, revision) == HubModelTypes[name]

\* dict.get: the value of the first (only) entry with the key, or None.
MapGet(map, key) ==
    IF \E i \in 1..Len(map) : map[i][1] = key
    THEN Some(map[CHOOSE i \in 1..Len(map) : map[i][1] = key][2])
    ELSE None

\* tuple(map.keys())
MapKeys(map) == [i \in 1..Len(map) |-> map[i][1]]

\* FromPretrainedHFModel.from_hf_hub of a module class: the invocation, and
\* the module it loads.
ModuleInvocation(module_cls, name, revision, device, quantization_config) ==
    [cls |-> module_cls, name |-> name, revision |-> revision,
     device |-> device, quantization_config |-> quantization_config]

\* Mutant: the revision is not passed on, so the callee's default is used.
AutoModel_instantiate_default_revision(cls, name, revision, device, quantization_config, model_type_to_class_map) ==
    LET model_type == get_hf_config_model_type(name, revision)
        module_cls == MapGet(model_type_to_class_map, model_type)
    IN  IF IsNone(module_cls)
        THEN [calls |-> <<>>,
              result |-> [status |-> "ValueError", model_type |-> model_type,
                          cls |-> cls,
                          supported |-> MapKeys(model_type_to_class_map)]]
        ELSE LET call == ModuleInvocation(Get(module_cls), name, "main", device,
                                          quantization_config)
             IN  [calls |-> <<call>>, result |-> [status |-> "ok", module |-> call]]

\* auto_model.py 54-74: AutoModel._instantiate_module_from_hf_hub. Returns the
\* module-class invocations it made and what it returned or raised; the
\* ValueError carries what its message interpolates. Every class of the maps
\* is a FromPretrainedHFModel, so the issubclass assertion of line 70 passes.
AutoModel_instantiate_module_from_hf_hub(cls, name, revision, device, quantization_config, model_type_to_class_map) ==
    LET model_type == get_hf_config_model_type(name, revision)
        module_cls == MapGet(model_type_to_class_map, model_type)
    IN  IF IsNone(module_cls)
        THEN [calls |-> <<>>,
              result |-> [status |-> "ValueError", model_type |-> model_type,
                          cls |-> cls,
                          supported |-> MapKeys(model_type_to_class_map)]]
        ELSE LET call == ModuleInvocation(Get(module_cls), name, revision, device,
                                          quantization_config)
             IN  [calls |-> <<call>>, result |-> [status |-> "ok", module |-> call]]

\* The from_hf_hub of an Auto class: instantiate through the class's map, then
\* assert the module is of the class's module kind.
AutoFromHfHub(cls, map, kind, name, revision, device, quantization_config) ==
    LET r == AutoModel_instantiate_module_from_hf_hub(
                 cls, name, revision, device, quantization_config, map)
    IN  /\ auto_req' = [called |-> TRUE, cls |-> cls, name |-> name,
                        revision |-> revision, device |-> device,
                        quantization_config |-> quantization_config,
                        model_type |-> get_hf_config_model_type(name, revision)]
        /\ auto_calls' = r.calls
        /\ auto_result' =
               IF r.result.status = "ok" /\ ModuleKind(r.result.module.cls) # kind
               THEN [status |-> "AssertionError"]
               ELSE r.result
        /\ UNCHANGED <<lm_vars, tok_vars, fn_vars>>

\* auto_model.py 88-101
AutoEncoder_from_hf_hub ==
    \E name \in HubNames, revision \in Revisions, device \in Devices,
       qc \in QuantizationConfigs :
        AutoFromHfHub("AutoEncoder", AutoEncoder_HF_MODEL_TYPE_TO_CURATED,
                      "EncoderModule", name, revision, device, qc)

\* auto_model.py 114-127
AutoDecoder_from_hf_hub ==
    \E name \in HubNames, revision \in Revisions, device \in Devices,
       qc \in QuantizationConfigs :
        AutoFromHfHub("AutoDecoder", AutoDecoder_HF_MODEL_TYPE_TO_CURATED,
                      "DecoderModule", name, revision, device, qc)

\* auto_model.py 140-153
AutoCausalLM_from_hf_hub ==
    \E name \in HubNames, revision \in Revisions, device \in Devices,
       qc \in QuantizationConfigs :
        AutoFromHfHub("AutoCausalLM", AutoCausalLM_HF_MODEL_TYPE_TO_CURATED,
                      "CausalLMModule", name, revision, device, qc)

InitAuto == LmIdle /\ AutoIdle /\ TokIdle /\ FnIdle
NextAuto ==
    AutoEncoder_from_hf_hub \/ AutoDecoder_from_hf_hub \/ AutoCausalLM_from_hf_hub
SpecAuto == InitAuto /\ [][NextAuto]_vars

\* The supported model types of each Auto class, as the claim counts them.
SupportedTypes(cls) ==
    CASE cls = "AutoEncoder" ->
             <<"bert", "albert", "camembert", "roberta", "xlm-roberta">>
      [] cls = "AutoDecoder" ->
             <<"gpt_neox", "llama", "RefinedWeb", "RefinedWebModel">>
      [] cls = "AutoCausalLM" ->
             <<"gpt_neox", "llama", "RefinedWeb", "RefinedWebModel">>

\* The class each Auto class is to dispatch a supported model type to.
ExpectedClass(cls, model_type) ==
    CASE cls = "AutoEncoder" ->
             (CASE model_type = "bert" -> "BertEncoder"
                [] model_type = "albert" -> "AlbertEncoder"
                [] model_type = "camembert" -> "CamembertEncoder"
                [] model_type = "roberta" -> "RobertaEncoder"
                [] model_type = "xlm-roberta" -> "XlmRobertaEncoder")
      [] cls = "AutoDecoder" ->
             (CASE model_type = "gpt_neox" -> "GPTNeoXDecoder"
                [] model_type = "llama" -> "LLaMADecoder"
                [] model_type \in {"RefinedWeb", "RefinedWebModel"} ->
                       "RefinedWebModelDecoder")
      [] cls = "AutoCausalLM" ->
             (CASE model_type = "gpt_neox" -> "GPTNeoXCausalLM"
                [] model_type = "llama" -> "LLaMACausalLM"
                [] model_type \in {"RefinedWeb", "RefinedWebModel"} ->
                       "RefinedWebModelCausalLM")

\* C5: from_hf_hub of an Auto class on a model whose type is not a key of the
\* class's map raises one ValueError that names the type and lists every
\* supported type, and invokes no module class; on a supported type it invokes
\* exactly the mapped class's from_hf_hub, once, with the same name, revision,
\* device and quantization config.
C5_AutoDispatch ==
    auto_req.called =>
        LET keys == SupportedTypes(auto_req.cls)
            supported == \E i \in 1..Len(keys) : keys[i] = auto_req.model_type
        IN  IF ~supported
            THEN /\ auto_result.status = "ValueError"
                 /\ auto_result.model_type = auto_req.model_type
                 /\ auto_result.cls = auto_req.cls
                 /\ auto_result.supported = keys
                 /\ auto_calls = <<>>
            ELSE /\ Len(auto_calls) = 1
                 /\ auto_calls[1] =
                        [cls |-> ExpectedClass(auto_req.cls, auto_req.model_type),
                         name |-> auto_req.name,
                         revision |-> auto_req.revision,
                         device |-> auto_req.device,
                         quantization_config |-> auto_req.quantization_config]
                 /\ auto_result.status = "ok"
                 /\ auto_result.module = auto_calls[1]

\* C5 witnesses: an unsupported type (a decoder type asked of AutoEncoder) and
\* a supported type loaded at a non-default revision, device and quantization.
C5_Witness ==
    /\ auto_req.called /\ auto_req.cls = "AutoEncoder"
    /\ auto_req.model_type = "llama"
    /\ auto_result.status = "ValueError"

C5_WitnessSupported ==
    /\ auto_req.called /\ auto_req.cls = "AutoCausalLM"
    /\ auto_req.model_type = "RefinedWeb" /\ auto_req.revision = "v1"
    /\ auto_req.device = "cuda" /\ auto_req.quantization_config = "8bit"
    /\ Len(auto_calls) = 1 /\ auto_calls[1].cls = "RefinedWebModelCausalLM"

(***************************************************************************)
(* Tokenizer: construction (RobertaTokenizer.__init__), the marker stages  *)
(* (RobertaPreDecoder, RobertaPostEncoder) and the encode / decode         *)
(* pipeline around the WordPiece splitter of the toy-tokenizer test.       *)
(* A text is a sequence of characters; "e_acute" stands for an accented    *)
(* letter no piece of the toy vocabulary covers.                           *)
(***************************************************************************)

\* Bounds of the tokenizer model.
MaxWords == 2       \* most words in a text
MaxBatch == 2       \* most texts in a batch
MaxWordLen == 4     \* longest word given to the WordPiece splitter alone

Letters == {"p", "o", "k", "e_acute"}
Punctuation == {"-"}

\* The vocabulary: entry i has id i-1 (ids are dense from 0). The ids of
\* [UNK], [CLS] and [SEP] are the test's; "##" pieces continue a word.
ToyVocab ==
    << [piece |-> "[PAD]", chars |-> <<"[PAD]">>, cont |-> FALSE],
       [piece |-> "[UNK]", chars |-> <<"[UNK]">>, cont |-> FALSE],
       [piece |-> "[CLS]", chars |-> <<"[CLS]">>, cont |-> FALSE],
       [piece |-> "[SEP]", chars |-> <<"[SEP]">>, cont |-> FALSE],
       [piece |-> "po",    chars |-> <<"p", "o">>, cont |-> FALSE],
       [piece |-> "##k",   chars |-> <<"k">>,      cont |-> TRUE],
       [piece |-> "p",     chars |-> <<"p">>,      cont |-> FALSE],
       [piece |-> "##o",   chars |-> <<"o">>,      cont |-> TRUE],
       [piece |-> "-",     chars |-> <<"-">>,      cont |-> FALSE] >>

UnkPiece == "[UNK]"

\* processor.piece_id(piece): the id of the piece, None when absent.
piece_id(processor, piece) ==
    IF \E i \in 1..Len(processor) : processor[i].piece = piece
    THEN Some((CHOOSE i \in 1..Len(processor) : processor[i].piece = piece) - 1)
    ELSE None

\* The vocabulary entry of an id.
id_to_entry(processor, id) == processor[id + 1]

\* Mutant: a piece that is missing is answered with the unknown piece's id.
get_piece_id_or_unknown(processor, piece) ==
    LET found == piece_id(processor, piece)
    IN  IF IsNone(found)
        THEN [status |-> "ok", id |-> Get(piece_id(processor, UnkPiece))]
        ELSE [status |-> "ok", id |-> Get(found)]

\* roberta_tokenizer.py 143-149: _get_piece_id_or_fail.
get_piece_id_or_fail(processor, piece) ==
    LET found == piece_id(processor, piece)
    IN  IF IsNone(found)
        THEN [status |-> "ValueError", piece |-> piece]
        ELSE [status |-> "ok", id |-> Get(found)]

\* roberta_tokenizer.py 17-29: RobertaPreDecoder.__init__
RobertaPreDecoder(bos_id, eos_id) == [bos_id |-> bos_id, eos_id |-> eos_id]

\* roberta_tokenizer.py 39-57: RobertaPostEncoder.__init__
RobertaPostEncoder(bos_piece, eos_piece, bos_id, eos_id) ==
    [bos_piece |-> bos_piece, eos_piece |-> eos_piece,
     bos_id |-> bos_id, eos_id |-> eos_id]

\* roberta_tokenizer.py 70-100: RobertaTokenizer.__init__. The first lookup
\* that fails raises; then neither stage is built.
RobertaTokenizer_init(processor, bos_piece, eos_piece) ==
    LET bos == get_piece_id_or_fail(processor, bos_piece)
        eos == get_piece_id_or_fail(processor, eos_piece)
    IN  IF bos.status # "ok" THEN bos
        ELSE IF eos.status # "ok" THEN eos
        ELSE [status |-> "ok",
              processor |-> processor,
              pre_decoder |-> RobertaPreDecoder(bos.id, eos.id),
              post_encoder |-> RobertaPostEncoder(bos_piece, eos_piece,
                                                  bos.id, eos.id)]

\* util.remove_pieces_from_sequence: the ids that are none of the given ones.
RECURSIVE remove_pieces_from_sequence(_, _)
remove_pieces_from_sequence(ids, pieces_to_remove) ==
    IF ids = <<>> THEN <<>>
    ELSE (IF Head(ids) \in pieces_to_remove THEN <<>> ELSE <<Head(ids)>>)
         \o remove_pieces_from_sequence(Tail(ids), pieces_to_remove)

\* Mutant: only the bos id is removed.
RobertaPreDecoder_call_keeps_eos(pre_decoder, input) ==
    [i \in 1..Len(input) |->
        remove_pieces_from_sequence(input[i], {pre_decoder.bos_id})]

\* Mutant: a marker is removed only where the post-encoder puts it, at the
\* first and the last position of a sequence.
RobertaPreDecoder_call_strips_ends(pre_decoder, input) ==
    LET markers == {pre_decoder.bos_id, pre_decoder.eos_id}
        strip(ids) ==
            LET from == IF ids # <<>> /\ ids[1] \in markers THEN 2 ELSE 1
                to   == IF Len(ids) >= from /\ ids[Len(ids)] \in markers
                        THEN Len(ids) - 1 ELSE Len(ids)
            IN  SubSeq(ids, from, to)
    IN  [i \in 1..Len(input) |-> strip(input[i])]

\* roberta_tokenizer.py 31-35: RobertaPreDecoder.__call__
RobertaPreDecoder_call(pre_decoder, input) ==
    [i \in 1..Len(input) |->
        remove_pieces_from_sequence(input[i],
                                    {pre_decoder.bos_id, pre_decoder.eos_id})]

\* util.add_bos_eos_to_encoding: every sequence gets the bos marker in front
\* and the eos marker behind, in ids, pieces and lens (one entry of 1 each).
add_bos_eos_to_encoding(pieces_with_ids, bos_piece, eos_piece, bos_id, eos_id) ==
    [ids    |-> [i \in 1..Len(pieces_with_ids.ids) |->
                    <<bos_id>> \o pieces_with_ids.ids[i] \o <<eos_id>>],
     pieces |-> [i \in 1..Len(pieces_with_ids.pieces) |->
                    <<bos_piece>> \o pieces_with_ids.pieces[i] \o <<eos_piece>>],
     lens   |-> [i \in 1..Len(pieces_with_ids.lens) |->
                    <<1>> \o pieces_with_ids.lens[i] \o <<1>>]]

\* Mutant: the two ids are passed in each other's place.
RobertaPostEncoder_call_swaps_ids(post_encoder, pieces_with_ids) ==
    add_bos_eos_to_encoding(pieces_with_ids,
                            post_encoder.bos_piece, post_encoder.eos_piece,
                            post_encoder.eos_id, post_encoder.bos_id)

\* roberta_tokenizer.py 59-66: RobertaPostEncoder.__call__
RobertaPostEncoder_call(post_encoder, pieces_with_ids) ==
    add_bos_eos_to_encoding(pieces_with_ids,
                            post_encoder.bos_piece, post_encoder.eos_piece,
                            post_encoder.bos_id, post_encoder.eos_id)

\* ---- the pre-encoder -----------------------------------------------------

\* str.split(sep) for a one-character separator.
RECURSIVE SplitAcc(_, _, _)
SplitAcc(text, sep, cur) ==
    IF text = <<>> THEN <<cur>>
    ELSE IF Head(text) = sep THEN <<cur>> \o SplitAcc(Tail(text), sep, <<>>)
    ELSE SplitAcc(Tail(text), sep, Append(cur, Head(text)))
Split(text, sep) == SplitAcc(text, sep, <<>>)

\* sep.join(parts)
RECURSIVE Join(_, _)
Join(parts, sep) ==
    IF parts = <<>> THEN <<>>
    ELSE IF Len(parts) = 1 THEN parts[1]
    ELSE parts[1] \o <<sep>> \o Join(Tail(parts), sep)

\* Mutant: a punctuation character ends the part before it instead of being
\* a part of its own.
RECURSIVE SplitOnPunctuation_keeps_trailing(_, _)
SplitOnPunctuation_keeps_trailing(word, cur) ==
    IF word = <<>> THEN (IF cur = <<>> THEN <<>> ELSE <<cur>>)
    ELSE IF Head(word) \in Punctuation
    THEN <<Append(cur, Head(word))>>
         \o SplitOnPunctuation_keeps_trailing(Tail(word), <<>>)
    ELSE SplitOnPunctuation_keeps_trailing(Tail(word), Append(cur, Head(word)))

\* A word cut at its punctuation: every punctuation character is a part of
\* its own, the runs between them are the other parts.
RECURSIVE SplitOnPunctuation(_, _)
SplitOnPunctuation(word, cur) ==
    IF word = <<>> THEN (IF cur = <<>> THEN <<>> ELSE <<cur>>)
    ELSE IF Head(word) \in Punctuation
    THEN (IF cur = <<>> THEN <<>> ELSE <<cur>>) \o <<<<Head(word)>>>>
         \o SplitOnPunctuation(Tail(word), <<>>)
    ELSE SplitOnPunctuation(Tail(word), Append(cur, Head(word)))

\* Unicode decomposition with the combining marks dropped.
StripAccent(c) == IF c = "e_acute" THEN "e" ELSE c

\* BertPreEncoder on one text (the test runs it with lowercase=False): the
\* words of the text, each cut at its punctuation, joined by single spaces.
BertPreEncoder_text(strip_accents, text) ==
    LET words   == Split(text, " ")
        cleaned == [i \in 1..Len(words) |->
                       IF strip_accents
                       THEN [j \in 1..Len(words[i]) |-> StripAccent(words[i][j])]
                       ELSE words[i]]
        parts   == [i \in 1..Len(words) |->
                       Join(SplitOnPunctuation(cleaned[i], <<>>), " ")]
    IN  Join(parts, " ")

\* BertPreEncoder.__call__: one normalized string per input string.
BertPreEncoder(strip_accents, texts) ==
    [i \in 1..Len(texts) |-> BertPreEncoder_text(strip_accents, texts[i])]

\* ---- the WordPiece splitter ----------------------------------------------

\* The length of the longest prefix of `rest` that is a piece of the
\* vocabulary (an initial piece, or a "##" piece inside a word); 0 if none.
LongestPrefix(processor, rest, cont) ==
    LET ks == {k \in 1..Len(rest) :
                  \E i \in 1..Len(processor) :
                      /\ processor[i].cont = cont
                      /\ processor[i].chars = SubSeq(rest, 1, k)}
    IN  IF ks = {} THEN 0 ELSE CHOOSE k \in ks : \A j \in ks : j <= k

\* The id of the piece with these characters.
PieceIdOfChars(processor, chars, cont) ==
    (CHOOSE i \in 1..Len(processor) :
         processor[i].cont = cont /\ processor[i].chars = chars) - 1

\* Mutant: one unknown id for every character that is left.
WordPieceUnknown_per_char(processor, rest) ==
    [i \in 1..Len(rest) |-> Get(piece_id(processor, UnkPiece))]

\* What the splitter emits when no prefix of the rest of the word is a piece:
\* one unknown id for the rest, after the ids already matched (the test's
\* "po", "##k", "[UNK]" for one word).
WordPieceUnknown(processor, rest) == <<Get(piece_id(processor, UnkPiece))>>

\* Greedy longest-prefix match over the rest of a word.
RECURSIVE WordPieceFrom(_, _, _)
WordPieceFrom(processor, rest, cont) ==
    IF rest = <<>> THEN <<>>
    ELSE LET k == LongestPrefix(processor, rest, cont)
         IN  IF k = 0 THEN WordPieceUnknown(processor, rest)
             ELSE <<PieceIdOfChars(processor, SubSeq(rest, 1, k), cont)>>
                  \o WordPieceFrom(processor, SubSeq(rest, k + 1, Len(rest)), TRUE)

\* The ids of one word.
WordPieceEncode(processor, word) == WordPieceFrom(processor, word, FALSE)

\* ---- encode and decode ---------------------------------------------------

RECURSIVE Flatten(_)
Flatten(seqs) == IF seqs = <<>> THEN <<>> ELSE Head(seqs) \o Flatten(Tail(seqs))

RECURSIVE Sum(_)
Sum(ns) == IF ns = <<>> THEN 0 ELSE Head(ns) + Sum(Tail(ns))

\* One pre-encoded text split into pieces: its ids, its piece strings and
\* the number of pieces of each of its words. The empty text has no word.
EncodeText(processor, text) ==
    LET words == IF text = <<>> THEN <<>> ELSE Split(text, " ")
        wids  == [i \in 1..Len(words) |-> WordPieceEncode(processor, words[i])]
        ids   == Flatten(wids)
    IN  [ids    |-> ids,
         pieces |-> [j \in 1..Len(ids) |-> id_to_entry(processor, ids[j]).piece],
         lens   |-> [i \in 1..Len(words) |-> Len(wids[i])]]

\* Tokenizer.encode: pre-encode, split, look up ids, post-encode.
encode(tokenizer, texts) ==
    LET pre  == BertPreEncoder(FALSE, texts)
        seqs == [i \in 1..Len(pre) |-> EncodeText(tokenizer.processor, pre[i])]
        pwi  == [ids    |-> [i \in 1..Len(seqs) |-> seqs[i].ids],
                 pieces |-> [i \in 1..Len(seqs) |-> seqs[i].pieces],
                 lens   |-> [i \in 1..Len(seqs) |-> seqs[i].lens]]
    IN  RobertaPostEncoder_call(tokenizer.post_encoder, pwi)

\* The WordPiece joining rule: a "##" piece continues the word before it,
\* every other piece starts a new word after a space.
RECURSIVE JoinPieces(_, _, _)
JoinPieces(processor, ids, out) ==
    IF ids = <<>> THEN out
    ELSE LET e == id_to_entry(processor, Head(ids))
         IN  JoinPieces(processor, Tail(ids),
                        IF e.cont \/ out = <<>> THEN out \o e.chars
                        ELSE out \o <<" ">> \o e.chars)

\* Tokenizer.decode: pre-decode, then ids back to one string per sequence.
decode(tokenizer, ids) ==
    LET stripped == RobertaPreDecoder_call(tokenizer.pre_decoder, ids)
    IN  [i \in 1..Len(stripped) |->
            JoinPieces(tokenizer.processor, stripped[i], <<>>)]

\* ---- the tokenizer's users -----------------------------------------------

BosPieces == {"[CLS]", "<s>"}
EosPieces == {"[SEP]", "</s>"}

\* The words texts are made of: covered by the vocabulary ("pok"), covered
\* in part ("pok" + an accented letter), and one the pre-encoder changes.
TextWords == {<<"p", "o", "k">>, <<"p", "o", "k", "e_acute">>, <<"p", "-", "p">>}

\* The texts: at most MaxWords words separated by single spaces.
Texts ==
    {Join(ws, " ") : ws \in UNION {[1..n -> TextWords] : n \in 0..MaxWords}}

Batches == UNION {[1..n -> Texts] : n \in 1..MaxBatch}

Construct(processor, bos_piece, eos_piece) ==
    /\ tok.status = "none"
    /\ tok_args' = [called |-> TRUE, bos_piece |-> bos_piece,
                    eos_piece |-> eos_piece]
    /\ tok' = RobertaTokenizer_init(processor, bos_piece, eos_piece)
    /\ UNCHANGED <<tok_texts, tok_enc, tok_dec>>
    /\ UNCHANGED <<lm_vars, auto_vars, fn_vars>>

\* RobertaTokenizer(processor=..., bos_piece=..., eos_piece=...)
RobertaTokenizer_new ==
    \E bos_piece \in BosPieces, eos_piece \in EosPieces :
        Construct(ToyVocab, bos_piece, eos_piece)

\* roberta_tokenizer.py 102-125: from_files loads the processor and
\* constructs.
RobertaTokenizer_from_files ==
    \E bos_piece \in BosPieces, eos_piece \in EosPieces :
        Construct(ToyVocab, bos_piece, eos_piece)

\* roberta_tokenizer.py 127-140: convert_hf_tokenizer builds the processor
\* from the serialized vocabulary and merges and constructs with the foreign
\* tokenizer's bos and eos tokens.
RobertaTokenizer_convert_hf_tokenizer ==
    \E bos_piece \in BosPieces, eos_piece \in EosPieces :
        Construct(ToyVocab, bos_piece, eos_piece)

\* tokenizer(texts): one encode call of a constructed tokenizer. The
\* tokenizer keeps no state between calls, so one call per run shows them all.
Encode ==
    /\ tok.status = "ok"
    /\ tok_enc.status = "none"
    /\ \E texts \in Batches :
        /\ tok_texts' = texts
        /\ tok_enc' = [status |-> "ok"] @@ encode(tok, texts)
    /\ UNCHANGED <<tok_args, tok, tok_dec>>
    /\ UNCHANGED <<lm_vars, auto_vars, fn_vars>>

\* tokenizer.decode(encoding.ids), as the toy-tokenizer test calls it.
Decode ==
    /\ tok.status = "ok"
    /\ tok_enc.status = "ok"
    /\ tok_dec.status = "none"
    /\ tok_dec' = [status |-> "ok", texts |-> decode(tok, tok_enc.ids)]
    /\ UNCHANGED <<tok_args, tok, tok_texts, tok_enc>>
    /\ UNCHANGED <<lm_vars, auto_vars, fn_vars>>

InitTok == LmIdle /\ AutoIdle /\ TokIdle /\ FnIdle
NextTok ==
    \/ RobertaTokenizer_new
    \/ RobertaTokenizer_from_files
    \/ RobertaTokenizer_convert_hf_tokenizer
    \/ Encode
    \/ Decode
SpecTok == InitTok /\ [][NextTok]_vars

(***************************************************************************)
(* Pure functions, each applied to inputs drawn from bounded sets.         *)
(***************************************************************************)

MaxRowLen == 2      \* longest id sequence of a batch given to padded_tensor

MaxMarked == 3      \* most ids in one batch given to the pre-decoder

MaxSeqLen == 3      \* longest row of an encoder's input tensor
EncoderLayers == 2  \* layers of an encoder
MaxTextLen == 4     \* most characters in one batch given to the pre-encoder

RowIds == {1, 2}
PadIds == {0, 1}

\* All words of at most n letters.
WordsUpTo(n) == UNION {[1..k -> Letters] : k \in 1..n}

\* The id sequences of a batch.
IdRows == UNION {[1..k -> RowIds] : k \in 0..MaxRowLen}
IdBatches == UNION {[1..n -> IdRows] : n \in 1..MaxBatch}

RECURSIVE MaxOf(_)
MaxOf(ns) ==
    IF ns = <<>> THEN 0
    ELSE LET m == MaxOf(Tail(ns)) IN IF Head(ns) > m THEN Head(ns) ELSE m

\* Mutant: the padding goes in front of the ids.
padded_tensor_pad_left(ids, padding_id) ==
    LET width == MaxOf([i \in 1..Len(ids) |-> Len(ids[i])])
    IN  [i \in 1..Len(ids) |->
            [k \in 1..(width - Len(ids[i])) |-> padding_id] \o ids[i]]

\* PiecesWithIds.padded_tensor(padding_id=...): a [batch, longest] tensor of
\* the ids, every row filled up on the right with the padding id.
padded_tensor(ids, padding_id) ==
    LET width == MaxOf([i \in 1..Len(ids) |-> Len(ids[i])])
    IN  [i \in 1..Len(ids) |->
            ids[i] \o [k \in 1..(width - Len(ids[i])) |-> padding_id]]

\* Mutant: the mask is read off the padded tensor, True where the entry is
\* not the padding id.
attention_mask_from_padding_id(ids, padding_id) ==
    LET tensor == padded_tensor(ids, padding_id)
    IN  [i \in 1..Len(tensor) |->
            [k \in 1..Len(tensor[i]) |-> tensor[i][k] # padding_id]]

\* PiecesWithIds.attention_mask: a [batch, longest] boolean tensor, each row
\* True over the length of its id sequence and False over the rest.  The
\* property takes no padding id; the parameter is the one of the tensor the
\* mask is used with.
attention_mask(ids, padding_id) ==
    LET width == MaxOf([i \in 1..Len(ids) |-> Len(ids[i])])
    IN  [i \in 1..Len(ids) |->
            [k \in 1..Len(ids[i]) |-> TRUE]
            \o [k \in 1..(width - Len(ids[i])) |-> FALSE]]

\* The batches of n sequences that hold at most total elements together;
\* rows[k] is the set of the sequences of length k.
RECURSIVE BatchesOf(_, _, _)
BatchesOf(rows, n, total) ==
    IF n = 0 THEN {<<>>}
    ELSE UNION {{<<r>> \o b : r \in rows[k],
                              b \in BatchesOf(rows, n - 1, total - k)} :
                k \in 0..total}

\* Id sequences given to the pre-decoder: the two marker ids and two other
\* ids, in any order and number.
BosId == piece_id(ToyVocab, "[CLS]")
EosId == piece_id(ToyVocab, "[SEP]")
MarkedIds == {Get(BosId), Get(EosId), Get(piece_id(ToyVocab, "po")),
              Get(piece_id(ToyVocab, "##k"))}
MarkedRows == [k \in 0..MaxMarked |-> [1..k -> MarkedIds]]
MarkedBatches ==
    UNION {BatchesOf(MarkedRows, n, MaxMarked) : n \in 1..MaxBatch}

\* Texts given to the pre-encoder: letters and punctuation in words that
\* single spaces separate, as in the test's strings.
TextChars == {"p", "e_acute", "-", " "}
SingleSpaced(text) ==
    /\ text # <<>> => (text[1] # " " /\ text[Len(text)] # " ")
    /\ \A k \in 1..(Len(text) - 1) : ~(text[k] = " " /\ text[k + 1] = " ")
PreEncoderTexts ==
    [k \in 0..MaxTextLen |-> {t \in [1..k -> TextChars] : SingleSpaced(t)}]
PreEncoderBatches ==
    UNION {BatchesOf(PreEncoderTexts, n, MaxTextLen) : n \in 1..MaxBatch}

\* ---- the encoders ----------------------------------------------------------

\* Input tensors of shape [batch, seq_len] and the padding ids of an encoder.
TensorIds == {0, 1}
PaddingIdxs == {0, 1}
Tensors(S) ==
    UNION {[1..b -> [1..n -> S]] : b \in 1..MaxBatch, n \in 1..MaxSeqLen}

\* x.ne(padding_idx).int()
ne_int(x, padding_idx) ==
    [i \in 1..Len(x) |->
        [k \in 1..Len(x[i]) |-> IF x[i][k] # padding_idx THEN 1 ELSE 0]]

\* t.cumsum(dim=1): running sums along each row.
RECURSIVE RowCumsum(_, _)
RowCumsum(row, acc) ==
    IF row = <<>> THEN <<>>
    ELSE <<acc + Head(row)>> \o RowCumsum(Tail(row), acc + Head(row))
cumsum_dim1(t) == [i \in 1..Len(t) |-> RowCumsum(t[i], 0)]

\* Mutant: the position id is the raw index of the position.
get_pos_embeddings_raw_index(self, x) ==
    IF self.learnable_pos_embeddings
    THEN [pos_embeddings |-> "Embedding",
          pos_ids |-> [i \in 1..Len(x) |->
                          [k \in 1..Len(x[i]) |-> k + self.padding_idx]]]
    ELSE [pos_embeddings |-> "SinusoidalPositionalEmbedding", pos_ids |-> x]

\* encoder.py 79-89: TransformerEncoder._get_pos_embeddings. The result is
\* the embedding table and the tensor it is looked up with.
get_pos_embeddings(self, x) ==
    IF self.learnable_pos_embeddings
    THEN LET mask == ne_int(x, self.padding_idx)
             cumsum == cumsum_dim1(mask)
         IN  [pos_embeddings |-> "Embedding",
              pos_ids |-> [i \in 1..Len(x) |->
                              [k \in 1..Len(x[i]) |->
                                  (cumsum[i][k] * mask[i][k]) + self.padding_idx]]]
    ELSE [pos_embeddings |-> "SinusoidalPositionalEmbedding", pos_ids |-> x]

\* Mutant: the mask marks the padding instead of the tokens.
create_attention_mask_marks_padding(self, x) ==
    [i \in 1..Len(x) |->
        [k \in 1..Len(x[i]) |-> IF x[i][k] = self.padding_idx THEN 1 ELSE 0]]

\* roberta/encoder.py 30-31, 80-81 and torch_transformer/encoder.py 76-77:
\* _create_attention_mask
create_attention_mask(self, x) == ne_int(x, self.padding_idx)

\* for layer in self.layers: layer_output = layer(layer_output,
\* attention_mask); layer_outputs.append(layer_output).  A layer's output is
\* the term of what the layer was called with.
RECURSIVE RunEncoderLayers(_, _, _, _)
RunEncoderLayers(l, n_layers, layer_output, attn_mask) ==
    IF l > n_layers THEN <<>>
    ELSE LET out == [layer |-> l, input |-> layer_output,
                     attention_mask |-> attn_mask]
         IN  <<out>> \o RunEncoderLayers(l + 1, n_layers, out, attn_mask)

\* roberta/encoder.py 33-61: RobertaEncoder.forward, and 83-111:
\* QuantizedRobertaEncoder.forward, which reads the same.
RobertaEncoder_forward(self, input_ids, attn_mask, token_type_ids) ==
    LET mask == IF IsNone(attn_mask)
                THEN create_attention_mask(self, input_ids)
                ELSE Get(attn_mask)
        embeddings == [op |-> "embeddings", input_ids |-> input_ids,
                       token_type_ids |-> token_type_ids, position_ids |-> None]
    IN  [embedding_output |-> embeddings,
         layer_hidden_states |->
             RunEncoderLayers(1, self.n_layers, embeddings, mask)]

\* torch_transformer/encoder.py 91-132: TransformerEncoder.forward
TransformerEncoder_forward(self, input, attn_mask, token_type_ids) ==
    LET mask == IF IsNone(attn_mask)
                THEN create_attention_mask(self, input)
                ELSE Get(attn_mask)
        input_emb == [op |-> "input_embeddings", input |-> input]
        zeros == [i \in 1..Len(input) |-> [k \in 1..Len(input[i]) |-> 0]]
        emb == IF self.token_type_embeddings
               THEN [op |-> "add", emb |-> input_emb,
                     token_type_ids |-> IF IsNone(token_type_ids) THEN zeros
                                        ELSE Get(token_type_ids)]
               ELSE input_emb
        pos == get_pos_embeddings(self, input)
        embedding_sum == [op |-> "emb_dropout(emb_layer_norm(emb + pos))",
                          emb |-> emb, pos |-> pos]
    IN  [embedding_sum |-> embedding_sum,
         layer_outputs |->
             RunEncoderLayers(1, self.n_layers, embedding_sum, mask)]

\* The encoders a forward call is made on, and its arguments: one row of
\* ids, no mask or a mask of the row's shape, no token types or all zeros.
Encoders ==
    {[class |-> c, padding_idx |-> p, n_layers |-> EncoderLayers] :
        c \in {"RobertaEncoder", "QuantizedRobertaEncoder"}, p \in PaddingIdxs}
    \cup {[class |-> "TransformerEncoder", padding_idx |-> p,
           n_layers |-> EncoderLayers, learnable_pos_embeddings |-> l,
           token_type_embeddings |-> t] :
             p \in PaddingIdxs, l \in BOOLEAN, t \in BOOLEAN}
RowTensors(S) == {<<row>> : row \in UNION {[1..n -> S] : n \in 1..MaxSeqLen}}
ForwardArgs ==
    UNION {{[input_ids |-> x, attention_mask |-> m, token_type_ids |-> t] :
               m \in {None} \cup {Some(<<mask>>) :
                                     mask \in [1..Len(x[1]) -> {0, 1}]},
               t \in {None, Some([i \in 1..Len(x) |->
                                     [k \in 1..Len(x[i]) |-> 0]])}} :
           x \in RowTensors(TensorIds)}

\* The functions applied, and the inputs each is applied to.
FnNames == {"wordpiece", "padded_tensor", "attention_mask", "pre_decoder",
            "pre_encoder", "get_pos_embeddings", "forward"}
FnInputs(fn) ==
    CASE fn = "wordpiece" ->
           {[fn |-> fn, word |-> w] : w \in WordsUpTo(MaxWordLen)}
      [] fn = "padded_tensor" ->
           {[fn |-> fn, ids |-> b, padding_id |-> p] :
               b \in IdBatches, p \in PadIds}
      [] fn = "attention_mask" ->
           {[fn |-> fn, ids |-> b, padding_id |-> p] :
               b \in IdBatches, p \in PadIds}
      [] fn = "pre_decoder" ->
           {[fn |-> fn, input |-> b] : b \in MarkedBatches}
      [] fn = "pre_encoder" ->
           {[fn |-> fn, strip_accents |-> a, texts |-> b] :
               a \in BOOLEAN, b \in PreEncoderBatches}
      [] fn = "get_pos_embeddings" ->
           {[fn |-> fn, learnable_pos_embeddings |-> l, padding_idx |-> p,
             x |-> x] :
               l \in BOOLEAN, p \in PaddingIdxs, x \in Tensors(TensorIds)}
      [] fn = "forward" ->
           {[fn |-> fn, self |-> e, args |-> a] :
               e \in Encoders, a \in ForwardArgs}

\* The WordPiece splitter applied to one word.
ApplyWordPiece ==
    /\ fn_in.fn = "wordpiece"
    /\ fn_out.status = "none"
    /\ fn_out' = [status |-> "ok", ids |-> WordPieceEncode(ToyVocab, fn_in.word)]
    /\ UNCHANGED <<fn_in, lm_vars, auto_vars, tok_vars>>

\* pieces.padded_tensor(padding_id=p)
ApplyPaddedTensor ==
    /\ fn_in.fn = "padded_tensor"
    /\ fn_out.status = "none"
    /\ fn_out' = [status |-> "ok",
                  tensor |-> padded_tensor(fn_in.ids, fn_in.padding_id)]
    /\ UNCHANGED <<fn_in, lm_vars, auto_vars, tok_vars>>

\* pieces.padded_tensor(padding_id=p) and pieces.attention_mask of the same
\* pieces, as the toy-tokenizer check reads them.
ApplyAttentionMask ==
    /\ fn_in.fn = "attention_mask"
    /\ fn_out.status = "none"
    /\ fn_out' = [status |-> "ok",
                  tensor |-> padded_tensor(fn_in.ids, fn_in.padding_id),
                  mask |-> attention_mask(fn_in.ids, fn_in.padding_id)]
    /\ UNCHANGED <<fn_in, lm_vars, auto_vars, tok_vars>>

\* RobertaPreDecoder(bos_id=..., eos_id=...)(input)
ApplyPreDecoder ==
    /\ fn_in.fn = "pre_decoder"
    /\ fn_out.status = "none"
    /\ fn_out' = [status |-> "ok",
                  ids |-> RobertaPreDecoder_call(
                              RobertaPreDecoder(Get(BosId), Get(EosId)),
                              fn_in.input)]
    /\ UNCHANGED <<fn_in, lm_vars, auto_vars, tok_vars>>

\* BertPreEncoder(lowercase=False, strip_accents=a)(texts)
ApplyPreEncoder ==
    /\ fn_in.fn = "pre_encoder"
    /\ fn_out.status = "none"
    /\ fn_out' = [status |-> "ok",
                  texts |-> BertPreEncoder(fn_in.strip_accents, fn_in.texts)]
    /\ UNCHANGED <<fn_in, lm_vars, auto_vars, tok_vars>>

\* TransformerEncoder(..., learnable_pos_embeddings=l, padding_idx=p)
\*     ._get_pos_embeddings(x)
ApplyGetPosEmbeddings ==
    /\ fn_in.fn = "get_pos_embeddings"
    /\ fn_out.status = "none"
    /\ fn_out' = [status |-> "ok",
                  pos |-> get_pos_embeddings(
                      [learnable_pos_embeddings |-> fn_in.learnable_pos_embeddings,
                       padding_idx |-> fn_in.padding_idx],
                      fn_in.x)]
    /\ UNCHANGED <<fn_in, lm_vars, auto_vars, tok_vars>>

\* encoder(input_ids, attention_mask, token_type_ids) on a RobertaEncoder or
\* a QuantizedRobertaEncoder
ApplyRobertaEncoderForward ==
    /\ fn_in.fn = "forward"
    /\ fn_in.self.class \in {"RobertaEncoder", "QuantizedRobertaEncoder"}
    /\ fn_out.status = "none"
    /\ fn_out' = [status |-> "ok",
                  layers |-> RobertaEncoder_forward(
                                 fn_in.self, fn_in.args.input_ids,
                                 fn_in.args.attention_mask,
                                 fn_in.args.token_type_ids).layer_hidden_states]
    /\ UNCHANGED <<fn_in, lm_vars, auto_vars, tok_vars>>

\* encoder(input, attention_mask, token_type_ids) on a TransformerEncoder
ApplyTransformerEncoderForward ==
    /\ fn_in.fn = "forward"
    /\ fn_in.self.class = "TransformerEncoder"
    /\ fn_out.status = "none"
    /\ fn_out' = [status |-> "ok",
                  layers |-> TransformerEncoder_forward(
                                 fn_in.self, fn_in.args.input_ids,
                                 fn_in.args.attention_mask,
                                 fn_in.args.token_type_ids).layer_outputs]
    /\ UNCHANGED <<fn_in, lm_vars, auto_vars, tok_vars>>

InitFn ==
    /\ LmIdle /\ AutoIdle /\ TokIdle
    /\ \E fn \in FnNames : fn_in \in FnInputs(fn)
    /\ fn_out = [status |-> "none"]
NextFn ==
    \/ ApplyWordPiece
    \/ ApplyPaddedTensor
    \/ ApplyAttentionMask
    \/ ApplyPreDecoder
    \/ ApplyPreEncoder
    \/ ApplyGetPosEmbeddings
    \/ ApplyRobertaEncoderForward
    \/ ApplyTransformerEncoderForward
SpecFn == InitFn /\ [][NextFn]_vars

(***************************************************************************)
(* Claims about the tokenizer and the pure functions.                      *)
(***************************************************************************)

\* Is the piece in the toy vocabulary?
InToyVocab(piece) == \E i \in 1..Len(ToyVocab) : ToyVocab[i].piece = piece

\* Is `id` the vocabulary id of the piece?
IsIdOf(id, piece) ==
    id \in 0..(Len(ToyVocab) - 1) /\ ToyVocab[id + 1].piece = piece

\* C6: constructing a RobertaTokenizer whose bos or eos piece is absent from
\* the processor's vocabulary fails with a ValueError naming the missing piece
\* and builds neither a pre-decoder nor a post-encoder; when both are present
\* the two stages are built with the same bos id and eos id, the vocabulary
\* ids of the pieces.
C6_ConstructionChecksPieces ==
    tok_args.called =>
        IF ~InToyVocab(tok_args.bos_piece) \/ ~InToyVocab(tok_args.eos_piece)
        THEN /\ tok.status = "ValueError"
             /\ tok.piece \in {tok_args.bos_piece, tok_args.eos_piece}
             /\ ~InToyVocab(tok.piece)
             /\ "pre_decoder" \notin DOMAIN tok
             /\ "post_encoder" \notin DOMAIN tok
        ELSE /\ tok.status = "ok"
             /\ tok.pre_decoder.bos_id = tok.post_encoder.bos_id
             /\ tok.pre_decoder.eos_id = tok.post_encoder.eos_id
             /\ IsIdOf(tok.post_encoder.bos_id, tok_args.bos_piece)
             /\ IsIdOf(tok.post_encoder.eos_id, tok_args.eos_piece)
             /\ tok.post_encoder.bos_piece = tok_args.bos_piece
             /\ tok.post_encoder.eos_piece = tok_args.eos_piece

\* C6 witnesses: the bos piece is there and the eos piece is missing; and a
\* construction that succeeds.
C6_Witness ==
    /\ tok_args.called
    /\ tok_args.bos_piece = "[CLS]" /\ tok_args.eos_piece = "</s>"
    /\ tok.status = "ValueError" /\ tok.piece = "</s>"

C6_WitnessBuilt ==
    /\ tok_args.called /\ tok.status = "ok"
    /\ tok.pre_decoder = [bos_id |-> 2, eos_id |-> 3]

\* C7: in every PiecesWithIds that encode returns, each batch element has as
\* many ids as pieces and as lens sums to; its first id and piece are the bos
\* marker, its last the eos marker, and each marker is one lens entry of 1.
C7_EncodingConsistent ==
    tok_enc.status = "ok" =>
        /\ Len(tok_enc.ids) = Len(tok_texts)
        /\ Len(tok_enc.pieces) = Len(tok_texts)
        /\ Len(tok_enc.lens) = Len(tok_texts)
        /\ \A i \in 1..Len(tok_texts) :
            LET ids    == tok_enc.ids[i]
                pieces == tok_enc.pieces[i]
                lens   == tok_enc.lens[i]
            IN  /\ Len(ids) = Len(pieces)
                /\ Len(ids) = Sum(lens)
                /\ Len(ids) >= 2 /\ Len(lens) >= 2
                /\ IsIdOf(ids[1], tok_args.bos_piece)
                /\ pieces[1] = tok_args.bos_piece
                /\ IsIdOf(ids[Len(ids)], tok_args.eos_piece)
                /\ pieces[Len(pieces)] = tok_args.eos_piece
                /\ lens[1] = 1 /\ lens[Len(lens)] = 1
                /\ \A j \in 1..Len(ids) : IsIdOf(ids[j], pieces[j])

\* C7 witness: a batch of two texts, one of which has a word of three pieces.
C7_Witness ==
    /\ tok_enc.status = "ok"
    /\ Len(tok_texts) = 2
    /\ tok_enc.pieces[1] = <<"[CLS]", "po", "##k", "[UNK]", "[SEP]">>
    /\ tok_enc.lens[1] = <<1, 3, 1>>
    /\ Len(tok_enc.ids[2]) > 5

\* The pre-encoder leaves every text of the batch as it is.
Unnormalized(texts) ==
    \A i \in 1..Len(texts) : BertPreEncoder_text(FALSE, texts[i]) = texts[i]

\* No piece of the encoding is the unknown piece.
NoUnknown(enc) ==
    \A i \in 1..Len(enc.pieces) : \A j \in 1..Len(enc.pieces[i]) :
        enc.pieces[i][j] # UnkPiece

WordEntries == [j \in 1..Len(fn_out.ids) |-> id_to_entry(ToyVocab, fn_out.ids[j])]

\* The word was not covered: the splitter fell back on the unknown piece.
WordNotCovered ==
    /\ fn_in.fn = "wordpiece" /\ fn_out.status = "ok"
    /\ \E j \in 1..Len(fn_out.ids) : WordEntries[j].piece = UnkPiece

\* C9 as claimed: a word the vocabulary does not fully cover yields exactly
\* one id, the unknown id, and no ids of matched prefixes.
C9_UnknownWholeWord ==
    WordNotCovered => fn_out.ids = <<Get(piece_id(ToyVocab, UnkPiece))>>

\* C9 as amended: a word the vocabulary does not fully cover yields the ids
\* of the pieces greedily matched at its start (an initial piece, then "##"
\* pieces), followed by exactly one unknown id, the last, for the rest of the
\* word, of which no prefix is a piece.
C9_OneUnknownAfterPrefix ==
    WordNotCovered =>
        LET n       == Len(fn_out.ids)
            matched == Flatten([j \in 1..(n - 1) |-> WordEntries[j].chars])
            rest    == SubSeq(fn_in.word, Len(matched) + 1, Len(fn_in.word))
        IN  /\ WordEntries[n].piece = UnkPiece
            /\ \A j \in 1..(n - 1) :
                /\ WordEntries[j].piece # UnkPiece
                /\ WordEntries[j].cont = (j > 1)
            /\ Len(matched) < Len(fn_in.word)
            /\ matched = SubSeq(fn_in.word, 1, Len(matched))
            /\ \A k \in 1..Len(rest) : \A i \in 1..Len(ToyVocab) :
                   ~(ToyVocab[i].cont = (n > 1)
                     /\ ToyVocab[i].chars = SubSeq(rest, 1, k))

\* C9 witness: the test's word, "po" "##k" and an uncovered letter.
C9_Witness ==
    /\ fn_in.fn = "wordpiece" /\ fn_out.status = "ok"
    /\ fn_in.word = <<"p", "o", "k", "e_acute">>
    /\ fn_out.ids = <<4, 5, 1>>

\* C10: padded_tensor(padding_id=p) has one row per sequence and as many
\* columns as the longest id sequence; row i holds ids[i] in order at its
\* first len(ids[i]) positions and p at every later position.
C10_PaddedTensor ==
    (fn_in.fn = "padded_tensor" /\ fn_out.status = "ok") =>
        LET t == fn_out.tensor
        IN  /\ Len(t) = Len(fn_in.ids)
            /\ \A i \in 1..Len(t) :
                /\ \A r \in 1..Len(fn_in.ids) : Len(t[i]) >= Len(fn_in.ids[r])
                /\ \E r \in 1..Len(fn_in.ids) : Len(t[i]) = Len(fn_in.ids[r])
                /\ \A j \in 1..Len(t[i]) :
                       t[i][j] = IF j <= Len(fn_in.ids[i]) THEN fn_in.ids[i][j]
                                 ELSE fn_in.padding_id

\* C10 witness: a shorter row padded with an id that also occurs as a token.
C10_Witness ==
    /\ fn_in.fn = "padded_tensor" /\ fn_out.status = "ok"
    /\ fn_in.ids = << <<1>>, <<2, 1>> >> /\ fn_in.padding_id = 1
    /\ fn_out.tensor = << <<1, 1>>, <<2, 1>> >>

\* C11: for every batch the attention mask has the shape of the padded
\* tensor and is TRUE exactly at the positions below the length of the row's
\* id sequence, whatever the ids are, the padding id included.
C11_MaskFromLengths ==
    (fn_in.fn = "attention_mask" /\ fn_out.status = "ok") =>
        /\ Len(fn_out.mask) = Len(fn_out.tensor)
        /\ \A i \in 1..Len(fn_out.mask) :
              /\ Len(fn_out.mask[i]) = Len(fn_out.tensor[i])
              /\ \A k \in 1..Len(fn_out.mask[i]) :
                    fn_out.mask[i][k] = (k <= Len(fn_in.ids[i]))

\* A batch with a padded row, and a real token whose id is the padding id.
C11_Witness ==
    /\ fn_in.fn = "attention_mask" /\ fn_out.status = "ok"
    /\ fn_in.ids = << <<2>>, <<2, 1>> >>
    /\ fn_in.padding_id = 1
    /\ fn_out.mask = << <<TRUE, FALSE>>, <<TRUE, TRUE>> >>

\* C12: the pre-decoder returns one list per input sequence, in the same
\* order, each the input sequence without the bos and eos ids and with the
\* other ids in their order; it does so wherever and however often the
\* markers occur.
C12_MarkersRemoved ==
    (fn_in.fn = "pre_decoder") =>
        (fn_out.status = "ok" =>
            /\ Len(fn_out.ids) = Len(fn_in.input)
            /\ \A i \in 1..Len(fn_in.input) :
                  LET kept == {k \in 1..Len(fn_in.input[i]) :
                                  fn_in.input[i][k] \notin {Get(BosId), Get(EosId)}}
                      \* position in the input of the j-th kept id
                      nth(j) == CHOOSE k \in kept :
                                    Cardinality({m \in kept : m <= k}) = j
                  IN  /\ Len(fn_out.ids[i]) = Cardinality(kept)
                      /\ \A j \in 1..Cardinality(kept) :
                            fn_out.ids[i][j] = fn_in.input[i][nth(j)])

\* A marker in the middle of a sequence, twice in the other, next to two
\* different ordinary ids.
C12_Witness ==
    /\ fn_in.fn = "pre_decoder" /\ fn_out.status = "ok"
    /\ \E i \in 1..Len(fn_in.input) :
          /\ Len(fn_in.input[i]) = 3
          /\ fn_in.input[i][2] = Get(EosId)
          /\ fn_out.ids[i] = <<5, 4>>

\* The same marker twice in one sequence, none in the other.
C12_WitnessRepeated ==
    /\ fn_in.fn = "pre_decoder" /\ fn_out.status = "ok"
    /\ fn_in.input = << <<2, 2>>, <<4>> >>
    /\ fn_out.ids = << <<>>, <<4>> >>

\* The text with one space put between every punctuation character and a
\* neighbour that is not a space, and nothing else changed.
RECURSIVE PunctuationSpaced(_, _)
PunctuationSpaced(text, k) ==
    IF k > Len(text) THEN <<>>
    ELSE (IF /\ k > 1
             /\ text[k] # " " /\ text[k - 1] # " "
             /\ (text[k] \in Punctuation \/ text[k - 1] \in Punctuation)
          THEN <<" ">> ELSE <<>>)
         \o <<text[k]>> \o PunctuationSpaced(text, k + 1)

\* C13: the pre-encoder gives one string per input string, the empty string
\* for the empty string, and in every output string a punctuation character
\* has exactly one space between itself and the nearest other character on
\* either side; no space is put at the start or the end of the string or
\* next to a space that is already there.
C13_PunctuationSpaced ==
    (fn_in.fn = "pre_encoder" /\ fn_out.status = "ok") =>
        /\ Len(fn_out.texts) = Len(fn_in.texts)
        /\ \A i \in 1..Len(fn_in.texts) :
              LET in  == fn_in.texts[i]
                  out == fn_out.texts[i]
                  src == IF fn_in.strip_accents
                         THEN [k \in 1..Len(in) |-> StripAccent(in[k])]
                         ELSE in
              IN  /\ in = <<>> => out = <<>>
                  /\ out = PunctuationSpaced(src, 1)
                  /\ out # <<>> => (out[1] # " " /\ out[Len(out)] # " ")
                  /\ \A k \in 1..Len(out) :
                        out[k] \in Punctuation =>
                            /\ k > 1 => out[k - 1] = " "
                            /\ k > 2 => out[k - 2] # " "
                            /\ k < Len(out) => out[k + 1] = " "
                            /\ k < Len(out) - 1 => out[k + 2] # " "

\* A hyphen between two letters, next to an empty string.
C13_Witness ==
    /\ fn_in.fn = "pre_encoder" /\ fn_out.status = "ok"
    /\ fn_in.texts = << <<"p", "-", "p">>, <<>> >>
    /\ fn_out.texts = << <<"p", " ", "-", " ", "p">>, <<>> >>

\* A hyphen that stands alone between two spaces already.
C13_WitnessIsolated ==
    /\ fn_in.fn = "pre_encoder" /\ fn_out.status = "ok"
    /\ fn_in.texts = << <<"p", " ", "-">> >>
    /\ fn_out.texts = fn_in.texts

\* C14: with learned positional embeddings the k-th non-padding token of a
\* row (k from 1) is looked up at position id padding_idx + k and every
\* padding position at padding_idx, so padding to the left of a token does
\* not move its position id.
C14_PositionsCountRealTokens ==
    (/\ fn_in.fn = "get_pos_embeddings" /\ fn_out.status = "ok"
     /\ fn_in.learnable_pos_embeddings) =>
        /\ fn_out.pos.pos_embeddings = "Embedding"
        /\ Len(fn_out.pos.pos_ids) = Len(fn_in.x)
        /\ \A i \in 1..Len(fn_in.x) :
              /\ Len(fn_out.pos.pos_ids[i]) = Len(fn_in.x[i])
              /\ \A k \in 1..Len(fn_in.x[i]) :
                    fn_out.pos.pos_ids[i][k] =
                        IF fn_in.x[i][k] = fn_in.padding_idx
                        THEN fn_in.padding_idx
                        ELSE fn_in.padding_idx
                             + Cardinality({j \in 1..k :
                                   fn_in.x[i][j] # fn_in.padding_idx})

\* Two rows with the same two real tokens, one of them padded on the left.
C14_Witness ==
    /\ fn_in.fn = "get_pos_embeddings" /\ fn_out.status = "ok"
    /\ fn_in.learnable_pos_embeddings
    /\ fn_in.padding_idx = 1
    /\ fn_in.x = << <<1, 0, 0>>, <<0, 0, 1>> >>
    /\ fn_out.pos.pos_ids = << <<1, 2, 3>>, <<2, 3, 1>> >>

\* C15: in an encoder's forward call without an attention mask every layer
\* is given the mask that is 1 exactly where the input id is not the
\* padding id and 0 elsewhere; with an attention mask every layer is given
\* that mask as it is, whatever the input ids are.
C15_MaskGivenToLayers ==
    (fn_in.fn = "forward" /\ fn_out.status = "ok") =>
        /\ Len(fn_out.layers) = fn_in.self.n_layers
        /\ \A l \in 1..Len(fn_out.layers) :
              LET used == fn_out.layers[l].attention_mask
                  ids  == fn_in.args.input_ids
              IN  IF IsNone(fn_in.args.attention_mask)
                  THEN /\ Len(used) = Len(ids)
                       /\ \A i \in 1..Len(ids) :
                             /\ Len(used[i]) = Len(ids[i])
                             /\ \A k \in 1..Len(ids[i]) :
                                   /\ used[i][k] \in {0, 1}
                                   /\ (used[i][k] = 1) <=>
                                          (ids[i][k] # fn_in.self.padding_idx)
                  ELSE used = Get(fn_in.args.attention_mask)

\* No mask given: the padding at the front of the row is masked out.
C15_Witness ==
    /\ fn_in.fn = "forward" /\ fn_out.status = "ok"
    /\ fn_in.self.class = "TransformerEncoder"
    /\ fn_in.self.padding_idx = 1
    /\ fn_in.args.attention_mask = None
    /\ fn_in.args.input_ids = << <<1, 0, 0>> >>
    /\ \A l \in 1..EncoderLayers :
          fn_out.layers[l].attention_mask = << <<0, 1, 1>> >>

\* A mask given that differs from the one the ids would give.
C15_WitnessSupplied ==
    /\ fn_in.fn = "forward" /\ fn_out.status = "ok"
    /\ fn_in.self.class = "RobertaEncoder"
    /\ fn_in.self.padding_idx = 1
    /\ fn_in.args.attention_mask = Some(<< <<1, 1, 0>> >>)
    /\ fn_in.args.input_ids = << <<1, 0, 0>> >>
    /\ \A l \in 1..EncoderLayers :
          fn_out.layers[l].attention_mask = << <<1, 1, 0>> >>

====
